---- MODULE Spec2Model ----
(***************************************************************************)
(* Model of GoodPracticesExample (demo/engineering-practices-demo.py): a   *)
(* named collection of strings with add_item, get_items_count, find_item.  *)
(*                                                                         *)
(* A Python str is a finite sequence of characters.  Characters are taken  *)
(* from a small alphabet holding a lower-case letter, its upper-case form  *)
(* and a whitespace character, so that str.strip and str.lower both have   *)
(* something to do.                                                        *)
(***************************************************************************)
EXTENDS Integers, Sequences, FiniteSets

VARIABLES name, items, op, arg, ret, added

vars == <<name, items, op, arg, ret, added>>

(* ---------------------------- bounds ----------------------------------- *)

\* longest argument string passed to add_item / find_item
MaxLen == 2

\* largest total number of characters held in the list (the Python list is
\* unbounded)
MaxChars == 3

(* ---------------------------- strings ---------------------------------- *)

Letters == {"a", "A"}

Whitespace == {" "}

Alphabet == Letters \cup Whitespace

Strings == UNION {[1..n -> Alphabet] : n \in 0..MaxLen}

Names == {"test", "demo"}

\* mutation: lower() leaves the text as it is (a case-sensitive search)
lower_Identity(s) == s

\* str.lower() on one character
LowerChar(c) == IF c = "A" THEN "a" ELSE c

\* str.lower()
lower(s) == [i \in 1..Len(s) |-> LowerChar(s[i])]

\* str.lstrip(): drop leading whitespace
RECURSIVE lstrip(_)
lstrip(s) ==
    IF s = <<>> THEN <<>>
    ELSE IF Head(s) \in Whitespace THEN lstrip(Tail(s))
    ELSE s

\* str.rstrip(): drop trailing whitespace
RECURSIVE rstrip(_)
rstrip(s) ==
    IF s = <<>> THEN <<>>
    ELSE IF s[Len(s)] \in Whitespace THEN rstrip(SubSeq(s, 1, Len(s) - 1))
    ELSE s

\* mutation: only leading whitespace is removed
strip_LeftOnly(s) == lstrip(s)

\* str.strip(): drop leading and trailing whitespace
strip(s) == rstrip(lstrip(s))

\* Python `needle in hay` on strings: needle occurs as a contiguous run
Contains(hay, needle) ==
    \E k \in 0..(Len(hay) - Len(needle)) :
        SubSeq(hay, k + 1, k + Len(needle)) = needle

\* characters held by a list of strings
RECURSIVE TotalLen(_)
TotalLen(its) == IF its = <<>> THEN 0 ELSE Len(Head(its)) + TotalLen(Tail(its))

(* ---------------------------- return values ---------------------------- *)

None == [type |-> "NoneType"]

BoolVal(b) == [type |-> "bool", val |-> b]

IntVal(n) == [type |-> "int", val |-> n]

StrVal(s) == [type |-> "str", val |-> s]

(* ---------------------------- methods ---------------------------------- *)

\* mutation: only the empty string is rejected
Rejected_EmptyOnly(item) == item = <<>>

\* add_item, line 29: `not item or item.strip() == ""`
Rejected(item) == item = <<>> \/ strip(item) = <<>>

\* mutation: the new item is put in front
add_item_items_Prepend(its, item) ==
    IF Rejected(item) THEN its ELSE <<strip(item)>> \o its

\* mutation: an item already stored is moved to the end instead of repeated
add_item_items_Dedup(its, item) ==
    IF Rejected(item) THEN its
    ELSE Append(SelectSeq(its, LAMBDA x : x # strip(item)), strip(item))

\* add_item: the list after the call
add_item_items(its, item) ==
    IF Rejected(item) THEN its ELSE Append(its, strip(item))

\* add_item: the value returned
add_item_ret(item) == IF Rejected(item) THEN BoolVal(FALSE) ELSE BoolVal(TRUE)

\* mutation: counts distinct items
get_items_count_Distinct(its) == Cardinality({its[i] : i \in 1..Len(its)})

\* get_items_count: len(self.items)
get_items_count(its) == Len(its)

\* find_item, line 49: the loop's test on one item
Matches(item, search_term) == Contains(lower(item), lower(search_term))

\* find_item: the for loop from position i on
RECURSIVE FindFrom(_, _, _)
FindFrom(its, i, search_term) ==
    IF i > Len(its) THEN None
    ELSE IF Matches(its[i], search_term) THEN StrVal(its[i])
    ELSE FindFrom(its, i + 1, search_term)

\* mutation: the loop keeps the last match instead of returning the first
find_item_LastMatch(its, search_term) ==
    LET hits == {i \in 1..Len(its) : Matches(its[i], search_term)}
    IN  IF hits = {} THEN None
        ELSE StrVal(its[CHOOSE i \in hits : \A j \in hits : j <= i])

\* mutation: an empty string is returned when nothing matches
find_item_EmptyWhenMissing(its, search_term) ==
    IF FindFrom(its, 1, search_term) = None THEN StrVal(<<>>)
    ELSE FindFrom(its, 1, search_term)

\* mutation: the search term is trimmed the way add_item trims its input
find_item_StripsTerm(its, search_term) == FindFrom(its, 1, strip(search_term))

\* find_item
find_item(its, search_term) == FindFrom(its, 1, search_term)

(* ---------------------------- state machine ---------------------------- *)

\* __init__(name): the name and an empty list
Init ==
    /\ name \in Names
    /\ items = <<>>
    /\ op = "init"
    /\ arg = <<>>
    /\ ret = None
    /\ added = <<>>

\* a call add_item(item); `added` logs the trimmed inputs of the calls that
\* returned True, in call order
AddItem ==
    \E item \in Strings :
        /\ Rejected(item) \/ TotalLen(items) + Len(item) <= MaxChars
        /\ items' = add_item_items(items, item)
        /\ ret' = add_item_ret(item)
        /\ added' = IF ret'.val THEN Append(added, strip(item)) ELSE added
        /\ op' = "add"
        /\ arg' = item
        /\ UNCHANGED name

\* a call get_items_count()
GetItemsCount ==
    /\ ret' = IntVal(get_items_count(items))
    /\ op' = "count"
    /\ arg' = <<>>
    /\ UNCHANGED <<name, items, added>>

\* mutation: the stored items are lower-cased in place before the search
FindItem_LowersInPlace ==
    \E search_term \in Strings :
        /\ items' = [i \in 1..Len(items) |-> lower(items[i])]
        /\ ret' = find_item(items', search_term)
        /\ op' = "find"
        /\ arg' = search_term
        /\ UNCHANGED <<name, added>>

\* a call find_item(search_term)
FindItem ==
    \E search_term \in Strings :
        /\ ret' = find_item(items, search_term)
        /\ op' = "find"
        /\ arg' = search_term
        /\ UNCHANGED <<name, items, added>>

Next == AddItem \/ GetItemsCount \/ FindItem

Spec == Init /\ [][Next]_vars

(* ---------------------------- vocabulary of the properties -------------- *)

\* Stated without strip, lower or Contains, so that the properties say
\* something about them.

True == BoolVal(TRUE)

False == BoolVal(FALSE)

IsBlank(s) == \A k \in 1..Len(s) : s[k] \in Whitespace

\* t is s without its leading and trailing whitespace
IsTrimOf(t, s) ==
    \E l \in 0..Len(s) : \E r \in 0..(Len(s) - l) :
        /\ t = SubSeq(s, l + 1, Len(s) - r)
        /\ \A k \in 1..l : s[k] \in Whitespace
        /\ \A k \in (Len(s) - r + 1)..Len(s) : s[k] \in Whitespace
        /\ t # <<>> => (t[1] \notin Whitespace /\ t[Len(t)] \notin Whitespace)

Trim(s) == CHOOSE t \in Strings : IsTrimOf(t, s)

Padded(s) == s # <<>> /\ (s[1] \in Whitespace \/ s[Len(s)] \in Whitespace)

SameLetter(c, d) == c = d \/ {c, d} = {"a", "A"}

\* needle occurs in hay when letter case is ignored
CIContains(hay, needle) ==
    \E k \in 0..(Len(hay) - Len(needle)) :
        \A j \in 1..Len(needle) : SameLetter(hay[k + j], needle[j])

IsPrefix(s, t) == Len(s) <= Len(t) /\ \A i \in 1..Len(s) : s[i] = t[i]

\* positions of the stored items that match the term
Hits(its, term) == {i \in 1..Len(its) : CIContains(its[i], term)}

First(S) == CHOOSE i \in S : \A j \in S : i <= j

(* ---------------------------- properties ------------------------------- *)

\* C1: every stored item is non-empty, is not whitespace-only and has no
\* leading or trailing whitespace, in every reachable state.
C1_StoredItemsAreTrimmedNonEmpty ==
    \A i \in 1..Len(items) :
        /\ items[i] # <<>>
        /\ ~IsBlank(items[i])
        /\ ~Padded(items[i])
        /\ IsTrimOf(items[i], items[i])

\* a padded input was accepted and is stored without its padding
C1_Witness ==
    /\ op = "add"
    /\ ret = True
    /\ Padded(arg)
    /\ items[Len(items)] # arg

\* C2: add_item(s) with a non-empty trimmed form returns True, leaves the old
\* list as it was with trim(s) appended at its end, and raises the count by
\* exactly one.
C2_AddAppendsTrimmed ==
    [][(op' = "add" /\ ~IsBlank(arg'))
         => /\ ret' = True
            /\ items' = Append(items, Trim(arg'))
            /\ get_items_count(items') = get_items_count(items) + 1]_vars

\* a padded input was appended behind an item already stored
C2_Witness ==
    /\ op = "add"
    /\ ret = True
    /\ Padded(arg)
    /\ Len(items) >= 2
    /\ items[Len(items)] = Trim(arg)

\* C3: add_item of an empty or whitespace-only input returns False (an
\* ordinary boolean result) and leaves the list and the count as they were.
C3_AddBlankRejected ==
    [][(op' = "add" /\ IsBlank(arg'))
         => /\ ret' = False
            /\ items' = items
            /\ get_items_count(items') = get_items_count(items)]_vars

\* a whitespace-only input was rejected on a collection that holds items
C3_Witness ==
    /\ op = "add"
    /\ arg # <<>>
    /\ IsBlank(arg)
    /\ ret = False
    /\ items # <<>>

\* C4: when some stored item contains the term case-insensitively, find_item
\* returns the earliest-inserted such item, exactly as stored.
C4_FindReturnsFirstMatch ==
    (op = "find" /\ Hits(items, arg) # {})
        => ret = StrVal(items[First(Hits(items, arg))])

\* two different stored items match; the first is returned, in its stored
\* letter case, which is not the term's
C4_Witness ==
    /\ op = "find"
    /\ Len(items) >= 2
    /\ {1, 2} \subseteq Hits(items, arg)
    /\ items[1] # items[2]
    /\ items[1] # arg
    /\ Len(items[1]) = Len(arg)
    /\ ret = StrVal(items[1])

\* C5: find_item returns None exactly when no stored item contains the term
\* case-insensitively, so always on an empty collection; None is not a stored
\* value.
C5_NoneIffNoMatch ==
    /\ op = "find" => (ret = None <=> Hits(items, arg) = {})
    /\ (op = "find" /\ items = <<>>) => ret = None
    /\ \A i \in 1..Len(items) : StrVal(items[i]) # None

\* a term that matches nothing in a non-empty collection
C5_Witness ==
    /\ op = "find"
    /\ items # <<>>
    /\ ~IsBlank(arg)
    /\ ret = None

\* C6: find_item and get_items_count change neither the name nor the list,
\* whether or not a match is found; add_item does not change the name.
C6_QueriesReadOnly ==
    [][/\ op' \in {"find", "count"} => (items' = items /\ name' = name)
       /\ op' = "add" => name' = name]_vars

\* a successful search over items one of which is not lower-case
C6_Witness ==
    /\ op = "find"
    /\ ret # None
    /\ \E i \in 1..Len(items) : \E k \in 1..Len(items[i]) : items[i][k] = "A"

\* C7: the count is 0 after construction and always equals the number of
\* add_item calls that have returned True.
C7_CountIsSuccessfulAdds ==
    /\ op = "init" => get_items_count(items) = 0
    /\ get_items_count(items) = Len(added)
    /\ op = "count" => ret = IntVal(Len(added))

\* the count was read after the same text had been added twice
C7_Witness ==
    /\ op = "count"
    /\ Len(added) >= 2
    /\ added[1] = added[2]
    /\ ret = IntVal(Len(added))

\* C8: the list before a step is a prefix of the list after it, and the count
\* never decreases.
C8_AppendOnly ==
    [][/\ IsPrefix(items, items')
       /\ get_items_count(items) <= get_items_count(items')]_vars

\* an item was added that was stored already
C8_Witness ==
    /\ op = "add"
    /\ ret = True
    /\ Len(items) >= 2
    /\ \E i \in 1..(Len(items) - 1) : items[i] = items[Len(items)]

\* C9: once add_item(s) has returned True, find_item(t) never returns None
\* for a term t that trim(s) contains case-insensitively, and returns trim(s)
\* when no earlier-inserted item matches t.
C9_AddedItemIsFound ==
    op = "find" =>
        \A i \in 1..Len(added) :
            CIContains(added[i], arg) =>
                /\ ret # None
                /\ (\A j \in 1..(i - 1) : ~CIContains(added[j], arg))
                       => ret = StrVal(added[i])

\* an added item found by a term that differs from its text in letter case
C9_Witness ==
    /\ op = "find"
    /\ arg # <<>>
    /\ \E i \in 1..Len(added) :
          /\ CIContains(added[i], arg)
          /\ ~Contains(added[i], arg)
          /\ ret = StrVal(added[i])

====
